---- MODULE Spec2Model ----
\* Verification model of the pattern-catalog generator scripts of
\* ayagup/design-patterns: the "bulk text-to-file materialization" loop of each
\* generator (python/*.py generators and nodejs/generate_all_142.py) and the
\* summary each prints afterwards, run against a small file system.
\*
\* A file system path is <<root, dir, file>>: root is "script" (the directory
\* holding the generator script) or "other" (a different working directory),
\* dir is a category name or "." (the root itself), file is <<stem, ext>> with
\* stem a sequence of characters.  File content is a sequence of text pieces,
\* so that overwriting and appending are different things.
EXTENDS Integers, Sequences, FiniteSets, TLC

\* ---------------------------------------------------------------- bounds
MaxEntries == 2      \* longest table literal explored
MaxRuns == 2         \* number of successive runs of the same script explored

\* ------------------------------------------------------- program constants
Gens == {"mega_generator", "complete_all_remaining",
         "final_comprehensive_generator", "generate_final_two",
         "ultimate_generator", "generate_creational", "generate_all_patterns",
         "generate_ultra_final_nine", "generate_all_142"}

\* The nine category names, in the order of the reporters' hard-coded lists.
Categories == <<"creational", "structural", "behavioral", "concurrency",
                "architectural", "enterprise", "cloud", "microservices",
                "additional">>

CategorySet == {Categories[k] : k \in DOMAIN Categories}

\* Categories that occur in the table of each script (a sample of one or two
\* of them is kept where the real table has more).
TableCats(g) ==
    CASE g = "mega_generator" -> {"behavioral", "cloud"}
      [] g = "complete_all_remaining" -> {"additional", "cloud"}
      [] g = "final_comprehensive_generator" -> {"enterprise"}
      [] g = "generate_final_two" -> {"cloud", "additional"}
      [] g = "ultimate_generator" -> {"concurrency"}
      [] g = "generate_creational" -> {"creational"}
      [] g = "generate_all_patterns" -> {"structural", "behavioral"}
      [] g = "generate_ultra_final_nine" -> {"additional"}
      [] OTHER -> {"creational", "cloud"}

\* The table is a dict literal (keys unique after construction) in the python
\* generators; a list of tuples in generate_all_142 and, per category, in
\* generate_ultra_final_nine.
IsDict(g) == g \notin {"generate_all_142", "generate_ultra_final_nine"}

IsJs(g) == g = "generate_all_142"

\* BASE = Path(__file__).parent / nodejs_dir = os.path.dirname(__file__);
\* generate_ultra_final_nine opens f"{category}/{filename}", a path relative to
\* the working directory of the process.
BaseRoot(g, wd) == IF g = "generate_ultra_final_nine" THEN wd ELSE "script"

\* Variant: every script wraps the write in try/except.
CatchesAll(g) == TRUE

\* Only generate_ultra_final_nine wraps the write in try/except Exception.
Catches(g) == g = "generate_ultra_final_nine"

\* Which scripts create the directory of an entry before writing it.
HasMkdir(g) == g # "generate_ultra_final_nine"

\* generate_all_patterns creates the category directory once per batch, before
\* the loop of the batch; the others create it inside the loop, per entry.
MkdirPerBatch(g) == g = "generate_all_patterns"

\* What follows the loop: a scan of the category directories, the running
\* counts, a fixed table, the README writer, or only the total.
Reporter(g) ==
    CASE g \in {"complete_all_remaining", "final_comprehensive_generator",
                "generate_final_two"} -> "scan"
      [] g = "generate_all_142" -> "counts"
      [] g = "generate_ultra_final_nine" -> "fixed"
      [] g = "ultimate_generator" -> "readme"
      [] OTHER -> "total"

\* The hard-coded category list of a scanning reporter.
ReportCategories(g) ==
    IF g = "final_comprehensive_generator"
    THEN CategorySet \ {"additional"}
    ELSE CategorySet

\* The table printed by generate_ultra_final_nine after its loop.
FixedTally ==
    [c \in CategorySet |->
        CASE c = "creational" -> 9
          [] c = "structural" -> 9
          [] c = "behavioral" -> 14
          [] c = "concurrency" -> 15
          [] c = "architectural" -> 15
          [] c = "enterprise" -> 19
          [] c = "cloud" -> 30
          [] c = "microservices" -> 18
          [] OTHER -> 21]

\* ------------------------------------------------------------ table input
Roots == {"script", "other"}
Texts == {"t1", "t2"}
PyNames == {<<"a">>, <<"b">>}
JsNames == {<<"A">>, <<"a">>, <<" ", "/">>}

Names(g) == IF IsJs(g) THEN JsNames ELSE PyNames

\* One entry of a table literal: category, pattern name, text (the code of a
\* python pattern, the description of a Node.js pattern).
LiteralEntries(g) == [cat : TableCats(g), name : Names(g), text : Texts]

RECURSIVE SeqsUpTo(_, _)
SeqsUpTo(S, n) ==
    IF n = 0 THEN {<<>>}
    ELSE LET shorter == SeqsUpTo(S, n - 1)
         IN  shorter \cup {Append(s, x) : s \in {t \in shorter : Len(t) = n - 1}, x \in S}

\* name.lower() on one character.
LowerChar(c) == IF c = "A" THEN "a" ELSE c

\* str.replace(old, new) on a sequence of characters.
Replace(s, old, new) == [k \in DOMAIN s |-> IF s[k] = old THEN new ELSE s[k]]

Lower(s) == [k \in DOMAIN s |-> LowerChar(s[k])]

\* filename(name): name.lower().replace(' ', '-').replace('/', '-') + '.js'
filename(name) == <<Replace(Replace(Lower(name), " ", "-"), "/", "-"), ".js">>

\* File name of an entry: the python tables hold the file name itself
\* ("<name>.py"), generate_creational appends ".py", generate_all_142 derives
\* it with filename().
FileOf(g, e) == IF IsJs(g) THEN filename(e.name) ELSE <<e.name, ".py">>

\* Text written for an entry: the table's code verbatim, or the Node.js
\* template instantiated with the name and the description.
ContentOf(g, e) == IF IsJs(g) THEN <<e.name, e.text>> ELSE <<e.text>>

\* Relative path of an entry.
RelPath(g, e) == <<e.cat, FileOf(g, e)>>

ToEntry(g, e) == [cat |-> e.cat, file |-> FileOf(g, e), content |-> ContentOf(g, e)]

\* Python dict construction from a literal: a repeated key keeps the position
\* of its first occurrence and the value of its last.
DictItems(g, lit) ==
    LET firsts == {k \in DOMAIN lit :
                      \A j \in 1..(k - 1) : RelPath(g, lit[j]) # RelPath(g, lit[k])}
        lastOf(k) == CHOOSE j \in DOMAIN lit :
                        /\ RelPath(g, lit[j]) = RelPath(g, lit[k])
                        /\ \A m \in DOMAIN lit :
                              RelPath(g, lit[m]) = RelPath(g, lit[k]) => m <= j
        RECURSIVE Build(_)
        Build(k) ==
            IF k > Len(lit) THEN <<>>
            ELSE IF k \in firsts
                 THEN <<ToEntry(g, lit[lastOf(k)])>> \o Build(k + 1)
                 ELSE Build(k + 1)
    IN  Build(1)

\* The sequence of (category, file, content) the loop of script g iterates.
TableOf(g, lit) ==
    IF IsDict(g) THEN DictItems(g, lit)
    ELSE [k \in DOMAIN lit |-> ToEntry(g, lit[k])]

UniquePaths(g, lit) ==
    \A j, k \in DOMAIN lit : RelPath(g, lit[j]) = RelPath(g, lit[k]) => j = k

\* Shape the real tables have and the code relies on: complete_all_remaining
\* has entries under additional/; the literal of generate_all_patterns is its
\* structural dict followed by its behavioral dict, both non-empty, in the
\* order main() runs the two batches.
TableShape(g, lit) ==
    /\ g = "complete_all_remaining" => \E k \in DOMAIN lit : lit[k].cat = "additional"
    /\ g = "generate_all_patterns" =>
          /\ \E k \in DOMAIN lit : lit[k].cat = "structural"
          /\ \E k \in DOMAIN lit : lit[k].cat = "behavioral"
          /\ \A j, k \in DOMAIN lit :
                (lit[j].cat = "structural" /\ lit[k].cat = "behavioral") => j < k

\* ------------------------------------------------------------------ state
VARIABLES
    gen,        \* the generator script being run
    literal,    \* its table literal
    cwd,        \* working directory of the process: "script" or "other"
    dirs,       \* existing category directories, <<root, category>>
    files,      \* path |-> content of every existing file
    pc,         \* position in the script
    i,          \* index of the table entry being processed
    out,        \* progress lines printed so far in this run
    counts,     \* generate_all_142: counts dict (category |-> entries done)
    tally,      \* per-category numbers printed by the summary of this run
    exitStatus, \* -1 while running, 0 on normal exit, 1 on uncaught exception
    run,        \* number of the current run of the script
    dirs0,      \* directories before the first run
    files0,     \* files before the first run
    prevFiles,  \* files at the end of the previous run
    envFailed,  \* some file system operation was failed by the environment
    failedAt,   \* index of the first entry of this run whose write failed, or 0
    written     \* indexes of the entries written in this run, in order

\* The other programs of the repository: verify_all_patterns.py and the
\* pattern samples it runs.  Each has its own variables and its own
\* specification; they stay at their idle values while a generator runs.
VARIABLES
    vpc,        \* verify_all_patterns: position in main()
    entry,      \* index of the TEST_PATTERNS entry being tested
    fileExists, \* full_path.exists() of that entry
    runOutcome, \* how subprocess.run ended for that entry
    passed,     \* main(): passed
    failed,     \* main(): failed
    verdicts,   \* the classification given to each entry so far, in order
    ret         \* value returned by main(), -1 before it returns

VARIABLES
    state,             \* CircuitBreaker.state
    failures,          \* CircuitBreaker.failures
    last_failure_time, \* CircuitBreaker.last_failure_time, None before a failure
    threshold,         \* CircuitBreaker.threshold
    timeout,           \* CircuitBreaker.timeout
    clock,             \* what time.time() returns now
    cpc,               \* position of the caller: between calls or inside func
    result,            \* how the last call of call() ended
    calls,             \* number of calls of call() made so far
    limit              \* number of calls the caller makes

VARIABLES
    ppc,        \* thread_pool_pattern: position of the main thread
    submitted,  \* number of tasks submitted to the executor
    tasks,      \* task |-> "new", "queued", "running" or "done"
    printed     \* the results printed by the main thread, in order

VARIABLES
    variant,    \* which singleton is called
    instance,   \* the stored instance (cls._instance, instances[cls]); 0 is none
    objects,    \* the objects created so far, each with its attributes
    lock,       \* the thread holding the lock, 0 when free
    tpc,        \* thread |-> position in the call
    obj,        \* thread |-> the object its call holds (local), 0 is none
    ncalls,     \* thread |-> calls it has started
    returned,   \* the objects returned by finished calls
    raised      \* number of calls that ended with an exception

VARIABLES
    readers,    \* ReadWriteLock._readers
    mutex,      \* ReadWriteLock._lock: the thread holding it, 0 when free
    write_lock, \* ReadWriteLock._write_lock: TRUE when locked
    rwpc        \* thread |-> position in the method it is calling

VARIABLES
    max_size,   \* ObjectPool._max_size
    available,  \* ObjectPool._available
    in_use,     \* ObjectPool._in_use
    pool_lock,  \* ObjectPool._lock: the thread holding it, 0 when free
    made,       \* number of calls of the factory so far
    caller      \* thread |-> its position, its local obj and what it holds

VARIABLES
    sample,     \* the sample script being run
    status      \* its exit status, -1 while it runs

genVars == <<gen, literal, cwd, dirs, files, pc, i, out, counts, tally,
             exitStatus, run, dirs0, files0, prevFiles, envFailed, failedAt, written>>
verifyVars == <<vpc, entry, fileExists, runOutcome, passed, failed, verdicts, ret>>
breakerVars == <<state, failures, last_failure_time, threshold, timeout,
                 clock, cpc, result, calls, limit>>
poolVars == <<ppc, submitted, tasks, printed>>
singletonVars == <<variant, instance, objects, lock, tpc, obj, ncalls, returned, raised>>
sampleVars == <<sample, status>>
rwlockVars == <<readers, mutex, write_lock, rwpc>>
objpoolVars == <<max_size, available, in_use, pool_lock, made, caller>>
otherVars == <<verifyVars, breakerVars, poolVars, singletonVars, rwlockVars,
               objpoolVars, sampleVars>>

vars == <<genVars, otherVars>>

\* last_failure_time = None
None == -1

\* Values of the variables of a program that is not running.
VerifyIdle ==
    /\ vpc = "idle" /\ entry = 0 /\ fileExists = FALSE /\ runOutcome = "none"
    /\ passed = 0 /\ failed = 0 /\ verdicts = <<>> /\ ret = -1

BreakerIdle ==
    /\ state = "CLOSED" /\ failures = 0 /\ last_failure_time = None
    /\ threshold = 0 /\ timeout = 0 /\ clock = 0
    /\ cpc = "idle" /\ result = "none" /\ calls = 0 /\ limit = 0

PoolIdle ==
    /\ ppc = "idle" /\ submitted = 0 /\ tasks = <<>> /\ printed = <<>>

SingletonIdle ==
    /\ variant = "none" /\ instance = 0 /\ objects = <<>> /\ lock = 0
    /\ tpc = <<>> /\ obj = <<>> /\ ncalls = <<>> /\ returned = {} /\ raised = 0

RWLockIdle ==
    /\ readers = 0 /\ mutex = 0 /\ write_lock = FALSE /\ rwpc = <<>>

ObjectPoolIdle ==
    /\ max_size = 0 /\ available = <<>> /\ in_use = <<>> /\ pool_lock = 0
    /\ made = 0 /\ caller = <<>>

SampleIdle ==
    /\ sample = "none" /\ status = -1

table == TableOf(gen, literal)

Base == BaseRoot(gen, cwd)

\* Absolute path of entry k of the table.
PathOf(k) == <<Base, table[k].cat, table[k].file>>

\* Variant: the summary goes to a file of another name.
ReadmePathOther == <<"script", ".", <<<<"SUMMARY">>, ".md">>>>

ReadmePath == <<"script", ".", <<<<"README">>, ".md">>>>

EmptyMap == [x \in {} |-> 0]

Put(f, k, v) == [x \in (DOMAIN f) \cup {k} |-> IF x = k THEN v ELSE f[x]]

\* Variant: the file is opened in mode 'a', the text lands after the old content.
WriteFileAppend(fs, path, text) ==
    Put(fs, path, (IF path \in DOMAIN fs THEN fs[path] ELSE <<>>) \o text)

\* Variant: an existing file is left as it is.
WriteFileExclusive(fs, path, text) ==
    IF path \in DOMAIN fs THEN fs ELSE Put(fs, path, text)

\* open(path, 'w') followed by write(text): the file holds exactly text.
WriteFile(fs, path, text) == Put(fs, path, text)

\* Variant: a failed write removes the output written so far.
TruncateAndCleanUp(fs, path) == [x \in {} |-> <<>>]

\* open(path, 'w') succeeded and the write did not: the file exists, truncated.
TruncateFile(fs, path) == Put(fs, path, <<>>)

\* mkdir(parents=True, exist_ok=True) / os.makedirs(exist_ok=True) /
\* mkdir(exist_ok=True) below an existing base: no error when d exists.
MkdirRaises(ds, d) == FALSE

Mkdir(ds, d) == ds \cup {d}

\* open(path, 'w') raises FileNotFoundError when the directory is missing.
OpenRaises(ds, path) == path[2] # "." /\ <<path[1], path[2]>> \notin ds

\* Does entry k start with a directory creation?
NeedsMkdir(k) ==
    /\ HasMkdir(gen)
    /\ MkdirPerBatch(gen) => (k = 1 \/ table[k - 1].cat # table[k].cat)

\* Position at which the processing of entry k starts, or the position after
\* the loop.
PcAt(k) ==
    IF k > Len(table) THEN "report"
    ELSE IF NeedsMkdir(k) THEN "mkdir" ELSE "write"

\* Position at which a run starts.
PcStart == IF gen = "complete_all_remaining" THEN "premkdir" ELSE PcAt(1)

\* ------------------------------------------------------------ initial state
\* Files left by an earlier run: a.py and a.js in every existing directory.
OldFiles(ds) ==
    [p \in {<<d[1], d[2], <<<<"a">>, e>>>> : d \in ds, e \in {".py", ".js"}} |-> <<"old">>]

\* The trees a first run of script g may find: no category directory; the
\* directories of the categories of its table (the other categories missing),
\* without files or with old files.
InitTrees(g) ==
    {[dirs |-> {}, files |-> EmptyMap],
     [dirs |-> Roots \X TableCats(g), files |-> EmptyMap],
     [dirs |-> Roots \X TableCats(g), files |-> OldFiles(Roots \X TableCats(g))]}

InitCommon ==
    /\ gen \in Gens
    /\ literal \in SeqsUpTo(LiteralEntries(gen), MaxEntries)
    /\ TableShape(gen, literal)
    /\ cwd \in Roots
    /\ \E t \in InitTrees(gen) : dirs = t.dirs /\ files = t.files
    /\ pc = PcStart
    /\ i = 1
    /\ out = <<>>
    /\ counts = EmptyMap
    /\ tally = EmptyMap
    /\ exitStatus = -1
    /\ run = 1
    /\ dirs0 = dirs
    /\ files0 = files
    /\ prevFiles = files
    /\ envFailed = FALSE
    /\ failedAt = 0
    /\ written = <<>>
    /\ VerifyIdle /\ BreakerIdle /\ PoolIdle /\ SingletonIdle /\ RWLockIdle /\ ObjectPoolIdle
    /\ SampleIdle

\* The tables of the repository name every relative path once.
Init == InitCommon /\ UniquePaths(gen, literal)

\* Table literals that name some relative path more than once.
InitCollision == InitCommon /\ ~UniquePaths(gen, literal)

\* ---------------------------------------------------------------- actions
\* Variant: the exception is swallowed at top level and the process exits 0.
RaiseExitZero ==
    /\ pc' = "error"
    /\ exitStatus' = 0

\* An uncaught exception: the traceback is printed and the process exits 1.
Raise ==
    /\ pc' = "error"
    /\ exitStatus' = 1

\* complete_all_remaining: additional_dir.mkdir(exist_ok=True) before the loop.
PreMkdir ==
    /\ pc = "premkdir"
    /\ \E ok \in BOOLEAN :
          IF ok /\ ~MkdirRaises(dirs, <<Base, "additional">>)
          THEN /\ dirs' = Mkdir(dirs, <<Base, "additional">>)
               /\ pc' = PcAt(1)
               /\ UNCHANGED <<exitStatus, envFailed>>
          ELSE /\ Raise
               /\ envFailed' = (envFailed \/ ~ok)
               /\ UNCHANGED dirs
    /\ UNCHANGED <<otherVars, gen, literal, cwd, files, i, out, counts, tally, run,
                   dirs0, files0, prevFiles, failedAt, written>>

\* full_path.parent.mkdir(parents=True, exist_ok=True) and its variants.
MkdirEntry ==
    /\ pc = "mkdir"
    /\ \E ok \in BOOLEAN :
          IF ok /\ ~MkdirRaises(dirs, <<Base, table[i].cat>>)
          THEN /\ dirs' = Mkdir(dirs, <<Base, table[i].cat>>)
               /\ pc' = "write"
               /\ UNCHANGED <<exitStatus, envFailed, failedAt>>
          ELSE /\ Raise
               /\ envFailed' = (envFailed \/ ~ok)
               /\ failedAt' = IF failedAt = 0 THEN i ELSE failedAt
               /\ UNCHANGED dirs
    /\ UNCHANGED <<otherVars, gen, literal, cwd, files, i, out, counts, tally, run,
                   dirs0, files0, prevFiles, written>>

\* What a failed write of an entry leads to: the except clause of
\* generate_ultra_final_nine, an uncaught exception elsewhere.
WriteFailed ==
    /\ failedAt' = IF failedAt = 0 THEN i ELSE failedAt
    /\ IF Catches(gen)
       THEN pc' = "print_err" /\ UNCHANGED exitStatus
       ELSE Raise

\* with open(path, 'w', encoding='utf-8') as f: f.write(code)
WriteEntry ==
    /\ pc = "write"
    /\ \E outcome \in {"ok", "open_fails", "write_fails"} :
          IF OpenRaises(dirs, PathOf(i))
          THEN /\ outcome = "open_fails"
               /\ WriteFailed
               /\ UNCHANGED <<files, envFailed, written>>
          ELSE CASE outcome = "ok" ->
                      /\ files' = WriteFile(files, PathOf(i), table[i].content)
                      /\ written' = Append(written, i)
                      /\ pc' = "print"
                      /\ UNCHANGED <<exitStatus, envFailed, failedAt>>
                 [] outcome = "open_fails" ->
                      /\ WriteFailed
                      /\ envFailed' = TRUE
                      /\ UNCHANGED <<files, written>>
                 [] OTHER ->
                      /\ files' = TruncateFile(files, PathOf(i))
                      /\ WriteFailed
                      /\ envFailed' = TRUE
                      /\ UNCHANGED written
    /\ UNCHANGED <<otherVars, gen, literal, cwd, dirs, i, out, counts, tally, run,
                   dirs0, files0, prevFiles>>

\* counts[category] = counts.get(category, 0) + 1
Bump(cs, c) == Put(cs, c, (IF c \in DOMAIN cs THEN cs[c] ELSE 0) + 1)

\* Variant: the iteration ends without its progress line.
PrintProgressSilent ==
    /\ pc = "print"
    /\ i' = i + 1
    /\ pc' = PcAt(i + 1)
    /\ UNCHANGED <<otherVars, gen, literal, cwd, dirs, files, out, counts, tally, exitStatus, run,
                   dirs0, files0, prevFiles, envFailed, failedAt, written>>

\* print(f"✓ {filepath}"), then the next iteration; generate_all_142 also
\* updates its counts.
PrintProgress ==
    /\ pc = "print"
    /\ out' = Append(out, [mark |-> "ok", path |-> <<table[i].cat, table[i].file>>])
    /\ counts' = IF Reporter(gen) = "counts" THEN Bump(counts, table[i].cat) ELSE counts
    /\ i' = i + 1
    /\ pc' = PcAt(i + 1)
    /\ UNCHANGED <<otherVars, gen, literal, cwd, dirs, files, tally, exitStatus, run,
                   dirs0, files0, prevFiles, envFailed, failedAt, written>>

\* generate_ultra_final_nine: print(f"✗ {filepath} - Error: {e}"), then the
\* next iteration.
PrintError ==
    /\ pc = "print_err"
    /\ out' = Append(out, [mark |-> "err", path |-> <<table[i].cat, table[i].file>>])
    /\ i' = i + 1
    /\ pc' = PcAt(i + 1)
    /\ UNCHANGED <<otherVars, gen, literal, cwd, dirs, files, counts, tally, exitStatus, run,
                   dirs0, files0, prevFiles, envFailed, failedAt, written>>

\* Variant: the glob pattern is "*", every file of the directory counts.
GlobCountAnyExtension(ds, fs, root, c) ==
    IF <<root, c>> \in ds
    THEN Cardinality({p \in DOMAIN fs : p[1] = root /\ p[2] = c})
    ELSE 0

\* Variant: the glob runs over every category directory of the base.
GlobCountAnyCategory(ds, fs, root, c) ==
    IF <<root, c>> \in ds
    THEN Cardinality({p \in DOMAIN fs : p[1] = root /\ p[3][2] = ".py"})
    ELSE 0

\* len(list(cat_path.glob("*.py"))) when cat_path.exists(), else the initial 0.
GlobCount(ds, fs, root, c) ==
    IF <<root, c>> \in ds
    THEN Cardinality({p \in DOMAIN fs : p[1] = root /\ p[2] = c /\ p[3][2] = ".py"})
    ELSE 0

\* Variant: the directory is listed without the existence check, which raises
\* FileNotFoundError for a missing directory.
ScanRaisesWhenMissing(ds, root, c) == <<root, c>> \notin ds

\* "if cat_path.exists():" guards the glob: the scan of a category raises
\* nothing, whether its directory exists or not.
ScanRaises(ds, root, c) == FALSE

\* sum(categories.values())
RECURSIVE SumOver(_, _)
SumOver(f, S) ==
    IF S = {} THEN 0
    ELSE LET c == CHOOSE x \in S : TRUE
         IN  f[c] + SumOver(f, S \ {c})

\* The printed summary: one line per category and the TOTAL line.
WithTotal(f, t) == [c \in (DOMAIN f) \cup {"TOTAL"} |-> IF c = "TOTAL" THEN t ELSE f[c]]

\* count_all_patterns() and the inline scan of generate_final_two.
CountAllPatterns ==
    /\ pc = "report"
    /\ Reporter(gen) = "scan"
    /\ IF \E c \in ReportCategories(gen) : ScanRaises(dirs, Base, c)
       THEN /\ Raise
            /\ UNCHANGED tally
       ELSE /\ LET categories == [c \in ReportCategories(gen) |->
                                    GlobCount(dirs, files, Base, c)]
               IN  tally' = WithTotal(categories, SumOver(categories, DOMAIN categories))
            /\ pc' = "exit0"
            /\ exitStatus' = 0
    /\ UNCHANGED <<otherVars, gen, literal, cwd, dirs, files, i, out, counts, run,
                   dirs0, files0, prevFiles, envFailed, failedAt, written>>

\* The summary printed from program data: the counts dict and the total
\* counter of generate_all_142 (one increment per entry processed), the fixed
\* table of generate_ultra_final_nine, only a total elsewhere.
PrintSummary ==
    /\ pc = "report"
    /\ Reporter(gen) \in {"counts", "fixed", "total"}
    /\ tally' = CASE Reporter(gen) = "counts" -> WithTotal(counts, i - 1)
                  [] Reporter(gen) = "fixed" -> WithTotal(FixedTally, 150)
                  [] OTHER -> EmptyMap
    /\ pc' = "exit0"
    /\ exitStatus' = 0
    /\ UNCHANGED <<otherVars, gen, literal, cwd, dirs, files, i, out, counts, run,
                   dirs0, files0, prevFiles, envFailed, failedAt, written>>

\* ultimate_generator.create_summary(): writes BASE / "README.md".
CreateSummary ==
    /\ pc = "report"
    /\ Reporter(gen) = "readme"
    /\ \E outcome \in {"ok", "open_fails", "write_fails"} :
          CASE outcome = "ok" ->
                  /\ files' = WriteFile(files, ReadmePath, <<"summary">>)
                  /\ pc' = "exit0"
                  /\ exitStatus' = 0
                  /\ UNCHANGED envFailed
            [] outcome = "open_fails" ->
                  /\ Raise
                  /\ envFailed' = TRUE
                  /\ UNCHANGED files
            [] OTHER ->
                  /\ files' = TruncateFile(files, ReadmePath)
                  /\ Raise
                  /\ envFailed' = TRUE
    /\ UNCHANGED <<otherVars, gen, literal, cwd, dirs, i, out, counts, tally, run,
                   dirs0, files0, prevFiles, failedAt, written>>

\* The same script is started again on the tree the previous run left.
Rerun ==
    /\ pc = "exit0"
    /\ run < MaxRuns
    /\ run' = run + 1
    /\ prevFiles' = files
    /\ pc' = PcStart
    /\ i' = 1
    /\ out' = <<>>
    /\ counts' = EmptyMap
    /\ tally' = EmptyMap
    /\ exitStatus' = -1
    /\ failedAt' = 0
    /\ written' = <<>>
    /\ UNCHANGED <<otherVars, gen, literal, cwd, dirs, files, dirs0, files0, envFailed>>

Next ==
    \/ PreMkdir
    \/ MkdirEntry
    \/ WriteEntry
    \/ PrintProgress
    \/ PrintError
    \/ CountAllPatterns
    \/ PrintSummary
    \/ CreateSummary
    \/ Rerun

Spec == Init /\ [][Next]_vars

\* The runs started in the script's directory on tables of one text: what a
\* run does next and how it ends depends on neither.
InitRun ==
    /\ Init
    /\ cwd = "script"
    /\ \A k \in DOMAIN literal : literal[k].text = "t1"

SpecRun == InitRun /\ [][Next]_vars

\* The same scripts on tables with repeated paths.
SpecCollision == InitCollision /\ [][Next]_vars

\* ------------------------------------------------------------- properties
\* Absolute path and content the table literal gives for its entry k.
LitPath(k) == <<Base, literal[k].cat, FileOf(gen, literal[k])>>

LitContent(k) == ContentOf(gen, literal[k])

LitPaths == {LitPath(k) : k \in DOMAIN literal}

\* Files created or modified since before the first run.
Changed == {p \in DOMAIN files : p \notin DOMAIN files0 \/ files[p] # files0[p]}

WrittenSet == {written[k] : k \in DOMAIN written}

\* C1 (completeness): when a run ends normally and none of its file system
\* operations failed, every entry of the table has its file under the base
\* directory, holding exactly the entry's content, whatever was there before.
C1_Completeness ==
    (pc = "exit0" /\ failedAt = 0) =>
        \A k \in DOMAIN literal :
            /\ LitPath(k) \in DOMAIN files
            /\ files[LitPath(k)] = LitContent(k)

\* A completed run that replaced the content an earlier run had left.
C1_Witness ==
    /\ pc = "exit0"
    /\ failedAt = 0
    /\ \E k \in DOMAIN literal :
          /\ LitPath(k) \in DOMAIN files0
          /\ files0[LitPath(k)] = <<"old">>
          /\ files[LitPath(k)] = LitContent(k)

\* C2 as stated: in every script a failed write ends the run at once with an
\* error status, no later entry being written.
C2_Original ==
    failedAt # 0 =>
        /\ pc = "error"
        /\ exitStatus = 1
        /\ \A k \in WrittenSet : k < failedAt

\* C2 amended: a failed write ends the run at once with status 1 in every
\* script but generate_ultra_final_nine, which prints an error line for the
\* entry, goes on with the later entries and exits with status 0.
C2_FailurePropagation ==
    failedAt # 0 =>
        IF gen = "generate_ultra_final_nine"
        THEN /\ pc \in {"print_err", "write", "print", "report", "exit0"}
             /\ exitStatus = (IF pc = "exit0" THEN 0 ELSE -1)
             /\ pc # "print_err" =>
                   /\ Len(out) >= failedAt
                   /\ out[failedAt].mark = "err"
             /\ pc = "exit0" => Len(out) = Len(literal)
        ELSE /\ pc = "error"
             /\ exitStatus = 1
             /\ i = failedAt
             /\ \A k \in WrittenSet : k < failedAt

\* A run aborted by the failure of its second entry; a run of
\* generate_ultra_final_nine that went on after a failure.
C2_Witness ==
    \/ /\ gen = "mega_generator" /\ failedAt = 2 /\ pc = "error" /\ written = <<1>>
    \/ /\ gen = "generate_ultra_final_nine" /\ failedAt = 1 /\ pc = "exit0"
       /\ written = <<2>>

\* C3 (no rollback): after the write of an entry failed, the file of every
\* entry written earlier in the run is present with the content written.
C3_NoRollback ==
    failedAt # 0 =>
        \A k \in WrittenSet :
            k < failedAt =>
                /\ LitPath(k) \in DOMAIN files
                /\ files[LitPath(k)] = LitContent(k)

\* The second entry failed half-way (file truncated) after the first was
\* written.
C3_Witness ==
    /\ failedAt = 2
    /\ written = <<1>>
    /\ pc = "error"
    /\ LitPath(2) \in DOMAIN files
    /\ files[LitPath(2)] = <<>>

\* C4 (directory creation): started on a base directory without category
\* subdirectories and with no operation failed by the environment, a script
\* writes every entry, and the directories it has created when it ends are
\* exactly those of the table's paths.
C4_DirectoryCreation ==
    ((\A d \in dirs0 : d[1] # Base) /\ ~envFailed) =>
        /\ failedAt = 0
        /\ pc # "error"
        /\ pc = "exit0" =>
              dirs \ dirs0 = {<<Base, literal[k].cat>> : k \in DOMAIN literal}

\* C5 (collision): when a table literal names a path twice the run raises no
\* error for it (a write fails only by the environment or for a missing
\* directory), and after a run without failed write each path holds the
\* content of the last entry naming it.
C5_LastWriteWins ==
    /\ (failedAt # 0 /\ ~envFailed) => <<Base, table[failedAt].cat>> \notin dirs
    /\ (pc = "exit0" /\ failedAt = 0) =>
          \A k \in DOMAIN literal :
              (\A m \in DOMAIN literal : LitPath(m) = LitPath(k) => m <= k) =>
                  /\ LitPath(k) \in DOMAIN files
                  /\ files[LitPath(k)] = LitContent(k)

\* A completed run of a table whose two entries name the same path with
\* different content, in a script whose table is a list.
C5_Witness ==
    /\ pc = "exit0"
    /\ failedAt = 0
    /\ ~IsDict(gen)
    /\ Len(literal) = 2
    /\ LitPath(1) = LitPath(2)
    /\ LitContent(1) # LitContent(2)
    /\ files[LitPath(1)] = LitContent(2)

\* C6 (idempotence): a second run in succession, with no operation failed by
\* the environment, ends with the file contents the first run left.
C6_Idempotence ==
    (run >= 2 /\ pc = "exit0" /\ ~envFailed) => files = prevFiles

\* A second run that wrote its entries again.
C6_Witness ==
    /\ run = 2
    /\ pc = "exit0"
    /\ ~envFailed
    /\ Len(written) >= 1
    /\ files # files0

\* C7 (ordering): entries are processed one at a time in table order: line k
\* of the progress output names entry k, every entry before the current one
\* has its line, and the entries written are exactly those with a success
\* line, plus the current one while its line is pending.
C7_Ordering ==
    /\ Len(out) = i - 1
    /\ \A k \in DOMAIN out : out[k].path = <<literal[k].cat, FileOf(gen, literal[k])>>
    /\ WrittenSet = {k \in DOMAIN out : out[k].mark = "ok"}
                      \cup (IF pc = "print" THEN {i} ELSE {})
    /\ \A j, k \in DOMAIN written : j < k => written[j] < written[k]

\* The second entry is about to be written, the first being written and
\* reported.
C7_Witness ==
    /\ pc = "write"
    /\ i = 2
    /\ written = <<1>>
    /\ Len(out) = 1
    /\ out[1].mark = "ok"

\* C8 as stated: a run creates or modifies only files named by its table,
\* and from a tree without files a completed run none of whose writes failed
\* leaves exactly the table's files.
C8_Original ==
    /\ Changed \subseteq LitPaths
    /\ (files0 = EmptyMap /\ pc = "exit0" /\ failedAt = 0) => DOMAIN files = LitPaths

\* C8 amended: a run creates or modifies only files named by its table and,
\* in ultimate_generator, README.md in the base directory; from a tree
\* without files, a completed run none of whose writes failed leaves exactly
\* those files.
C8_ExactOutputSet ==
    LET readme == IF gen = "ultimate_generator"
                  THEN {<<"script", ".", <<<<"README">>, ".md">>>>}
                  ELSE {}
    IN  /\ Changed \subseteq (LitPaths \cup readme)
        /\ (files0 = EmptyMap /\ pc = "exit0" /\ failedAt = 0) =>
              DOMAIN files = LitPaths \cup readme

\* A completed two-entry run from an empty tree that left two files.
C8_Witness ==
    /\ files0 = EmptyMap
    /\ dirs0 = {}
    /\ pc = "exit0"
    /\ failedAt = 0
    /\ Len(literal) = 2
    /\ Cardinality(DOMAIN files) = 2

\* C9 (output root): every pattern file a run creates or modifies lies in the
\* directory of the script, in the subdirectory of a category of the table,
\* whatever the working directory.
C9_OutputRoot ==
    \A p \in Changed :
        p[2] # "." =>
            /\ p[1] = "script"
            /\ \E k \in DOMAIN literal : p[2] = literal[k].cat

\* Number of table entries under category c.
EntriesUnder(c) == Cardinality({k \in DOMAIN literal : literal[k].cat = c})

\* Every category with entries is reported, and every reported number is the
\* number of table entries under the category.
TallyMatchesTable ==
    \A c \in CategorySet :
        IF c \in DOMAIN tally THEN tally[c] = EntriesUnder(c) ELSE EntriesUnder(c) = 0

\* C10 as stated: after a completed run on a tree without files, none of
\* whose writes failed, the per-category summary of every script that prints
\* one gives the number of table entries of each category.
C10_Original ==
    (pc = "exit0" /\ files0 = EmptyMap /\ failedAt = 0
        /\ gen \in {"complete_all_remaining", "final_comprehensive_generator",
                    "generate_final_two", "generate_all_142",
                    "generate_ultra_final_nine"}) =>
        TallyMatchesTable

\* C10 amended: that holds of the scripts whose summary scans the category
\* directories and of generate_all_142, which prints its running counts;
\* generate_ultra_final_nine prints fixed numbers (additional: 21) whatever
\* it wrote.
C10_TallyCorrect ==
    (pc = "exit0" /\ files0 = EmptyMap /\ failedAt = 0) =>
        /\ gen \in {"complete_all_remaining", "final_comprehensive_generator",
                    "generate_final_two", "generate_all_142"} => TallyMatchesTable
        /\ gen = "generate_ultra_final_nine" =>
              /\ tally["additional"] = 21
              /\ tally["cloud"] = 30

\* A scanning summary that reported two entries under cloud.
C10_Witness ==
    /\ pc = "exit0"
    /\ files0 = EmptyMap
    /\ failedAt = 0
    /\ gen = "generate_final_two"
    /\ EntriesUnder("cloud") = 2
    /\ tally["cloud"] = 2
    /\ tally["creational"] = 0

\* Number of files with extension ext in the directory of category c under the
\* base directory.
FilesIn(c, ext) ==
    Cardinality({p \in DOMAIN files : p[1] = Base /\ p[2] = c /\ p[3][2] = ext})

\* Files the tree held in the directory of category c before the first run.
OldFilesIn(c, ext) ==
    Cardinality({p \in DOMAIN files0 : p[1] = Base /\ p[2] = c /\ p[3][2] = ext})

\* C11 as stated: whenever a script has printed a per-category summary (the
\* directory scans and the summary of generate_all_142), each number is the
\* number of files with the script's extension in the category directory.
C11_Original ==
    (pc = "exit0" /\ gen \in {"complete_all_remaining", "final_comprehensive_generator",
                              "generate_final_two", "generate_all_142"}) =>
        \A c \in (DOMAIN tally) \ {"TOTAL"} :
            tally[c] = FilesIn(c, IF gen = "generate_all_142" THEN ".js" ELSE ".py")

\* C11 amended: the summaries of complete_all_remaining,
\* final_comprehensive_generator and generate_final_two give, per category, the
\* number of *.py files in the category directory when the summary runs, old
\* files included, and the summary step changes no file and no directory;
\* generate_all_142 prints the number of table entries it processed per
\* category, whatever the directory holds.
C11_Observational ==
    /\ [](pc = "exit0" =>
            /\ gen \in {"complete_all_remaining", "final_comprehensive_generator",
                        "generate_final_two"} =>
                  \A c \in (DOMAIN tally) \ {"TOTAL"} : tally[c] = FilesIn(c, ".py")
            /\ gen = "generate_all_142" =>
                  \A c \in (DOMAIN tally) \ {"TOTAL"} :
                      tally[c] = Cardinality({k \in 1..(i - 1) : literal[k].cat = c}))
    /\ [][(pc = "report" /\ gen # "ultimate_generator") =>
             (files' = files /\ dirs' = dirs)]_vars

\* A scan that counted an old file together with a file of this run, and left
\* the old .js file out.
C11_Witness ==
    /\ pc = "exit0"
    /\ gen = "generate_final_two"
    /\ written = <<1>>
    /\ OldFilesIn("cloud", ".py") = 1
    /\ OldFilesIn("cloud", ".js") = 1
    /\ tally["cloud"] = 2

\* C12 (missing category): a scanning summary does not fail; it reports every
\* category of its list, 0 for a category whose directory is missing, and a
\* total that is the sum of the reported numbers.
C12_MissingCategory ==
    (gen \in {"complete_all_remaining", "final_comprehensive_generator",
              "generate_final_two"} /\ failedAt = 0 /\ ~envFailed) =>
        /\ pc # "error"
        /\ pc = "exit0" =>
              /\ DOMAIN tally = ReportCategories(gen) \cup {"TOTAL"}
              /\ \A c \in ReportCategories(gen) :
                    <<Base, c>> \notin dirs => tally[c] = 0
              /\ tally["TOTAL"] = SumOver(tally, ReportCategories(gen))

\* A summary that reported 0 for the missing creational directory and 1 for
\* cloud.
C12_Witness ==
    /\ pc = "exit0"
    /\ gen = "generate_final_two"
    /\ <<Base, "creational">> \notin dirs
    /\ tally["creational"] = 0
    /\ tally["cloud"] = 1
    /\ tally["TOTAL"] >= 1

\* Steps a run still has to take, at most: four per remaining entry, plus the
\* steps left in the current position.
StepsLeft ==
    4 * (Len(table) + 1 - i)
      + (CASE pc = "premkdir" -> 4
           [] pc = "mkdir" -> 3
           [] pc \in {"write", "report"} -> 2
           [] pc \in {"print", "print_err"} -> 1
           [] OTHER -> 0)

Terminated == pc \in {"exit0", "error"}

\* C13 as stated (its exit status part): a run that exits with status 0 had no
\* failed write and has written every entry of its table.
C13_Original ==
    exitStatus = 0 => (failedAt = 0 /\ WrittenSet = DOMAIN table)

\* C13 amended: every run terminates (a step is always possible until the run
\* has ended, and every step of a run lowers the number of steps left); a run
\* ends with status 1 only after a failed I/O operation, and a run without
\* failed I/O operation ends with status 0 having written every entry; every
\* script but generate_ultra_final_nine exits 0 only in that case, while
\* generate_ultra_final_nine exits 0 also after failed writes.
C13_Invocation ==
    /\ [](~Terminated => ENABLED Next)
    /\ [][run' = run => StepsLeft' < StepsLeft]_vars
    /\ [](/\ exitStatus = (CASE pc = "exit0" -> 0 [] pc = "error" -> 1 [] OTHER -> -1)
          /\ pc = "error" => envFailed
          /\ (pc = "exit0" /\ failedAt = 0) => WrittenSet = DOMAIN table
          /\ (exitStatus = 0 /\ gen # "generate_ultra_final_nine") =>
                (failedAt = 0 /\ WrittenSet = DOMAIN table)
          /\ exitStatus = 0 => \A k \in DOMAIN table :
                k \in WrittenSet \/ (k <= Len(out) /\ out[k].mark = "err"))

\* A run without failure that wrote its two entries and exited 0.
C13_Witness ==
    /\ gen = "mega_generator"
    /\ pc = "exit0"
    /\ exitStatus = 0
    /\ ~envFailed
    /\ written = <<1, 2>>

\* ============================================== verify_all_patterns.py
\* Values of the generator's variables while another program runs.
GenIdle ==
    /\ gen = "mega_generator" /\ literal = <<>> /\ cwd = "script"
    /\ dirs = {} /\ files = EmptyMap /\ pc = "idle" /\ i = 0 /\ out = <<>>
    /\ counts = EmptyMap /\ tally = EmptyMap /\ exitStatus = -1 /\ run = 0
    /\ dirs0 = {} /\ files0 = EmptyMap /\ prevFiles = EmptyMap
    /\ envFailed = FALSE /\ failedAt = 0 /\ written = <<>>

\* TEST_PATTERNS, in the order of the dict literal.
TEST_PATTERNS ==
    <<"creational/singleton_pattern.py", "structural/adapter_pattern.py",
      "behavioral/observer_pattern.py", "concurrency/thread_pool_pattern.py",
      "architectural/mvc_pattern.py", "enterprise/repository_pattern.py",
      "cloud/circuit_breaker_pattern.py", "microservices/api_gateway_pattern.py">>

\* How subprocess.run can end: the child's return code is 0 or not, the
\* 5 second timeout expires, or the child cannot be launched.
Outcomes == {"rc_zero", "rc_nonzero", "timeout", "launch_error"}

\* Variant: any child that ran to its end counts as a success.
SuccessAnyReturnCode(o) == o \in {"rc_zero", "rc_nonzero"}

\* test_pattern: first component of the returned tuple.
Success(o) == o = "rc_zero"

InitVerify ==
    /\ GenIdle /\ BreakerIdle /\ PoolIdle /\ SingletonIdle /\ RWLockIdle /\ ObjectPoolIdle
    /\ SampleIdle
    /\ vpc = "loop" /\ entry = 1 /\ fileExists = FALSE /\ runOutcome = "none"
    /\ passed = 0 /\ failed = 0 /\ verdicts = <<>> /\ ret = -1

verifyOthers == <<genVars, breakerVars, poolVars, singletonVars,
                  rwlockVars, objpoolVars, sampleVars>>

\* main, lines 50-55: the file is missing, the entry fails and the loop
\* continues with the next one.
FileNotFound ==
    /\ vpc = "loop" /\ entry <= Len(TEST_PATTERNS)
    /\ fileExists' = FALSE
    /\ runOutcome' = "none"
    /\ failed' = failed + 1
    /\ verdicts' = Append(verdicts, "failed")
    /\ entry' = entry + 1
    /\ UNCHANGED <<vpc, passed, ret, verifyOthers>>

\* main, lines 50-52: the file exists.
FileFound ==
    /\ vpc = "loop" /\ entry <= Len(TEST_PATTERNS)
    /\ fileExists' = TRUE
    /\ runOutcome' = "none"
    /\ vpc' = "run"
    /\ UNCHANGED <<entry, passed, failed, verdicts, ret, verifyOthers>>

\* test_pattern: the child process is run and ends in one of the ways.
TestPattern ==
    /\ vpc = "run"
    /\ \E o \in Outcomes : runOutcome' = o
    /\ vpc' = "classify"
    /\ UNCHANGED <<entry, fileExists, passed, failed, verdicts, ret, verifyOthers>>

\* main, lines 59-66.
Classify ==
    /\ vpc = "classify"
    /\ IF Success(runOutcome)
       THEN /\ passed' = passed + 1
            /\ verdicts' = Append(verdicts, "passed")
            /\ UNCHANGED failed
       ELSE /\ failed' = failed + 1
            /\ verdicts' = Append(verdicts, "failed")
            /\ UNCHANGED passed
    /\ entry' = entry + 1
    /\ vpc' = "loop"
    /\ UNCHANGED <<fileExists, runOutcome, ret, verifyOthers>>

\* main, lines 72-77.
Return ==
    /\ vpc = "loop" /\ entry > Len(TEST_PATTERNS)
    /\ ret' = IF failed = 0 THEN 0 ELSE 1
    /\ vpc' = "done"
    /\ UNCHANGED <<entry, fileExists, runOutcome, passed, failed, verdicts, verifyOthers>>

NextVerify ==
    \/ FileNotFound
    \/ FileFound
    \/ TestPattern
    \/ Classify
    \/ Return

SpecVerify == InitVerify /\ [][NextVerify]_vars

\* Number of entries of verdicts with the value v.
NumberOf(v) == Cardinality({k \in DOMAIN verdicts : verdicts[k] = v})

\* C14: main() gives each TEST_PATTERNS entry one verdict, in order, so that
\* passed and failed count the verdicts and add up to the number of entries
\* when it returns; an entry passes only when its file exists and the child
\* returned 0 before the timeout, and fails when the file is missing or the
\* child returned non-zero, timed out or could not be launched; main()
\* returns 0 when failed = 0 and 1 otherwise.
C14_Verification ==
    /\ [](/\ passed = NumberOf("passed") /\ failed = NumberOf("failed")
          /\ Len(verdicts) = entry - 1
          /\ vpc = "done" => /\ passed + failed = Len(TEST_PATTERNS)
                             /\ ret = (IF failed = 0 THEN 0 ELSE 1)
          /\ vpc # "done" => ret = -1)
    /\ [][/\ Len(verdicts') \in {Len(verdicts), Len(verdicts) + 1}
          /\ entry' \in {entry, entry + 1}
          /\ entry' = entry + 1 <=> Len(verdicts') = Len(verdicts) + 1
          /\ \A k \in DOMAIN verdicts : verdicts'[k] = verdicts[k]
          /\ Len(verdicts') = Len(verdicts) + 1 =>
                (verdicts'[entry] = "passed" <=>
                    (vpc = "classify" /\ fileExists /\ runOutcome = "rc_zero"))]_vars

\* main() has returned 1 after passing some entries and failing others, one
\* of them for a timeout.
C14_Witness ==
    /\ vpc = "done" /\ ret = 1 /\ passed = 6 /\ failed = 2
    /\ verdicts[1] = "failed" /\ verdicts[8] = "failed"
    /\ fileExists /\ runOutcome = "timeout"

\* ======================================= cloud/circuit_breaker_pattern.py
MaxThreshold == 2
MaxTimeout == 1
MaxClock == 7
MaxCalls == 4

\* Variant: the breaker lets the trial call through as soon as timeout
\* seconds have passed.
ExpiredInclusive(now, last, t) == now - last >= t

\* call, line 20: more than timeout seconds have passed since the last failure.
Expired(now, last, t) == now - last > t

\* Variant: a successful trial closes the breaker and keeps the count.
AfterSuccessKeepsFailures(st, f) ==
    IF st = "HALF_OPEN" THEN [state |-> "CLOSED", failures |-> f]
                        ELSE [state |-> st, failures |-> f]

\* call, lines 27-29: state and failures after func has returned.
AfterSuccess(st, f) ==
    IF st = "HALF_OPEN" THEN [state |-> "CLOSED", failures |-> 0]
                        ELSE [state |-> st, failures |-> f]

\* Variant: the breaker opens one failure late.
TripsAboveThreshold(f, th) == f > th

\* call, line 34.
Trips(f, th) == f >= th

\* CircuitBreaker(threshold, timeout) as __init__ leaves it, with a caller
\* that is about to make n calls.
Constructed(th, t, n) ==
    /\ threshold = th /\ timeout = t
    /\ failures = 0 /\ last_failure_time = None /\ state = "CLOSED"
    /\ clock = 0 /\ cpc = "ready" /\ result = "none" /\ calls = 0 /\ limit = n

InitBreaker ==
    /\ GenIdle /\ VerifyIdle /\ PoolIdle /\ SingletonIdle /\ RWLockIdle /\ ObjectPoolIdle
    /\ SampleIdle
    /\ \E th \in 1..MaxThreshold, t \in 0..MaxTimeout : Constructed(th, t, MaxCalls)

breakerOthers == <<genVars, verifyVars, poolVars, singletonVars,
                  rwlockVars, objpoolVars>>

\* call, lines 19-26: the OPEN check; the call is rejected, or func is invoked.
Call ==
    /\ cpc = "ready" /\ calls < limit
    /\ calls' = calls + 1
    /\ IF state = "OPEN" /\ ~Expired(clock, last_failure_time, timeout)
       THEN /\ result' = "Circuit is OPEN"
            /\ UNCHANGED <<state, cpc>>
       ELSE /\ state' = IF state = "OPEN" THEN "HALF_OPEN" ELSE state
            /\ result' = "none"
            /\ cpc' = "in_func"
    /\ UNCHANGED <<failures, last_failure_time, threshold, timeout, clock, limit,
                   breakerOthers, sampleVars>>

\* call, lines 26-30: func returns.
FuncReturns ==
    /\ cpc = "in_func"
    /\ state' = AfterSuccess(state, failures).state
    /\ failures' = AfterSuccess(state, failures).failures
    /\ result' = "returned"
    /\ cpc' = "ready"
    /\ UNCHANGED <<last_failure_time, threshold, timeout, clock, calls, limit,
                   breakerOthers, sampleVars>>

\* call, lines 31-36: func raises an Exception.
FuncRaises ==
    /\ cpc = "in_func"
    /\ failures' = failures + 1
    /\ last_failure_time' = clock
    /\ state' = IF Trips(failures + 1, threshold) THEN "OPEN" ELSE state
    /\ result' = "raised"
    /\ cpc' = "ready"
    /\ UNCHANGED <<threshold, timeout, clock, calls, limit, breakerOthers, sampleVars>>

\* Time passes, between calls or while func runs.
Tick ==
    /\ cpc \in {"ready", "in_func"}
    /\ clock < MaxClock
    /\ clock' = clock + 1
    /\ UNCHANGED <<state, failures, last_failure_time, threshold, timeout,
                   cpc, result, calls, limit, breakerOthers, sampleVars>>

NextBreaker ==
    \/ Call
    \/ FuncReturns
    \/ FuncRaises
    \/ Tick

SpecBreaker == InitBreaker /\ [][NextBreaker]_vars

\* The steps of a call.
CallStarts == cpc = "ready" /\ calls' = calls + 1
Returned == cpc = "in_func" /\ cpc' = "ready" /\ result' = "returned"
Failed == cpc = "in_func" /\ cpc' = "ready" /\ result' = "raised"

\* C16: a call made while the breaker is OPEN and at most timeout seconds
\* after the last failure ends with "Circuit is OPEN" without invoking func
\* and changes none of state, failures and last_failure_time; and whenever
\* the state is OPEN, failures >= threshold.
C16_OpenRejects ==
    /\ [](state = "OPEN" => failures >= threshold)
    /\ [][(CallStarts /\ state = "OPEN" /\ clock - last_failure_time <= timeout) =>
             /\ result' = "Circuit is OPEN"
             /\ cpc' = "ready"
             /\ UNCHANGED <<state, failures, last_failure_time>>]_vars

\* A call has been rejected exactly timeout seconds after the last failure.
C16_Witness ==
    /\ state = "OPEN" /\ result = "Circuit is OPEN" /\ cpc = "ready"
    /\ timeout = 1 /\ clock - last_failure_time = timeout

\* C17: once the breaker is OPEN, a call made more than timeout seconds
\* after the last failure moves it to HALF_OPEN and invokes func; HALF_OPEN
\* lasts only while that func runs; when func returns the breaker is CLOSED
\* with failures = 0, and when it raises the breaker is OPEN again with
\* last_failure_time set to the (later) time of this failure.
C17_Recovery ==
    /\ [](state = "HALF_OPEN" => cpc = "in_func")
    /\ [][(CallStarts /\ state = "OPEN" /\ clock - last_failure_time > timeout) =>
             (state' = "HALF_OPEN" /\ cpc' = "in_func")]_vars
    /\ [][(Returned /\ state = "HALF_OPEN") =>
             (state' = "CLOSED" /\ failures' = 0)]_vars
    /\ [][(Failed /\ state = "HALF_OPEN") =>
             /\ state' = "OPEN"
             /\ last_failure_time' = clock
             /\ last_failure_time' > last_failure_time]_vars

\* A trial call has succeeded and closed the breaker.
C17_Witness ==
    /\ state = "CLOSED" /\ failures = 0 /\ result = "returned"
    /\ last_failure_time # None /\ clock - last_failure_time > timeout

\* C18: failures counts the failed calls since construction or the last
\* reset: a call that succeeds while CLOSED leaves failures and the state as
\* they are, a failed call adds one, the breaker leaves CLOSED exactly at the
\* failure that brings failures to threshold, and failures goes back to 0
\* only when a HALF_OPEN trial succeeds.
C18_Cumulative ==
    /\ [](state = "CLOSED" => failures < threshold)
    /\ [][(Returned /\ state = "CLOSED") =>
             (failures' = failures /\ state' = "CLOSED")]_vars
    /\ [][Failed => failures' = failures + 1]_vars
    /\ [][(state = "CLOSED" /\ state' # "CLOSED") =>
             (Failed /\ state' = "OPEN" /\ failures' = threshold)]_vars
    /\ [][(Failed /\ failures' = threshold) => state' = "OPEN"]_vars
    /\ [][failures' # failures =>
             \/ Failed
             \/ Returned /\ state = "HALF_OPEN" /\ failures' = 0]_vars

\* Three calls, one of them a success, and the second failure has opened the
\* breaker: the success did not reset the count.
C18_Witness ==
    /\ threshold = 2 /\ state = "OPEN" /\ failures = 2 /\ calls = 3
    /\ result = "raised"

\* ================================================== the sample scripts
\* circuit_breaker_pattern.py, __main__: CircuitBreaker(threshold=2), with
\* the default timeout, called 5 times.
DemoThreshold == 2
DefaultTimeout == 5
DemoCalls == 5

\* thread_pool_pattern.py, __main__: 5 tasks on an executor of 3 workers.
max_workers == 3
NumTasks == 5

Samples == {TEST_PATTERNS[k] : k \in DOMAIN TEST_PATTERNS}
BreakerDemo == "cloud/circuit_breaker_pattern.py"
PoolDemo == "concurrency/thread_pool_pattern.py"

TaskIds == 0..(NumTasks - 1)

\* worker(n): its return value.
worker(n) == n * 2

InitSamples ==
    /\ GenIdle /\ VerifyIdle /\ SingletonIdle /\ RWLockIdle /\ ObjectPoolIdle
    /\ sample \in Samples
    /\ status = -1
    /\ IF sample = BreakerDemo
       THEN Constructed(DemoThreshold, DefaultTimeout, DemoCalls)
       ELSE BreakerIdle
    /\ IF sample = PoolDemo
       THEN /\ ppc = "submit" /\ submitted = 0 /\ printed = <<>>
            /\ tasks = [n \in TaskIds |-> "new"]
       ELSE PoolIdle

\* circuit_breaker_pattern.py, lines 46-51: every call sits in a try block
\* whose handler catches Exception, so the loop goes on to range(5)'s end
\* and the script ends.
DemoExit ==
    /\ sample = BreakerDemo /\ status = -1
    /\ cpc = "ready" /\ calls = limit
    /\ cpc' = "done"
    /\ status' = 0
    /\ UNCHANGED <<state, failures, last_failure_time, threshold, timeout, clock,
                   result, calls, limit, sample, breakerOthers>>

poolOthers == <<genVars, verifyVars, breakerVars, singletonVars,
                  rwlockVars, objpoolVars>>

\* thread_pool_pattern.py, line 13: executor.submit(worker, i).
Submit ==
    /\ ppc = "submit"
    /\ tasks' = [tasks EXCEPT ![submitted] = "queued"]
    /\ submitted' = submitted + 1
    /\ ppc' = IF submitted + 1 = NumTasks THEN "result" ELSE "submit"
    /\ UNCHANGED <<printed, sampleVars, poolOthers>>

\* A worker thread of the executor takes the oldest queued task; at most
\* max_workers tasks run at a time (worker, lines 5-6).
WorkerStarts ==
    /\ Cardinality({n \in DOMAIN tasks : tasks[n] = "running"}) < max_workers
    /\ \E n \in DOMAIN tasks :
          /\ tasks[n] = "queued"
          /\ \A m \in DOMAIN tasks : tasks[m] = "queued" => n <= m
          /\ tasks' = [tasks EXCEPT ![n] = "running"]
    /\ UNCHANGED <<ppc, submitted, printed, sampleVars, poolOthers>>

\* worker, lines 7-9: the task returns and its future holds the result.
WorkerDone ==
    /\ \E n \in DOMAIN tasks :
          /\ tasks[n] = "running"
          /\ tasks' = [tasks EXCEPT ![n] = "done"]
    /\ UNCHANGED <<ppc, submitted, printed, sampleVars, poolOthers>>

\* Variant: result() does not wait for a task that has only been started.
ResultReadyWhenStarted(ts, n) == ts[n] \in {"running", "done"}

\* future.result() returns once the task is done.
ResultReady(ts, n) == ts[n] = "done"

\* What the future of task n holds.
ResultOf(ts, n) == IF ts[n] = "done" THEN worker(n) ELSE None

\* thread_pool_pattern.py, lines 14-15: the next future's result is printed.
Result ==
    /\ ppc = "result"
    /\ LET n == Len(printed)
       IN /\ ResultReady(tasks, n)
          /\ printed' = Append(printed, ResultOf(tasks, n))
          /\ ppc' = IF n + 1 = NumTasks THEN "shutdown" ELSE "result"
    /\ UNCHANGED <<submitted, tasks, sampleVars, poolOthers>>

\* thread_pool_pattern.py, line 12: leaving the with block waits for the
\* worker threads (shutdown(wait=True)); then the script ends.
Shutdown ==
    /\ ppc = "shutdown"
    /\ \A n \in DOMAIN tasks : tasks[n] \in {"new", "done"}
    /\ ppc' = "exit"
    /\ status' = 0
    /\ UNCHANGED <<submitted, tasks, printed, sample, poolOthers>>

\* The other samples read no input and start no thread: their main blocks
\* run their statements, none of which raises, and the script ends.
RunTo(s) ==
    /\ sample = s /\ status = -1
    /\ status' = 0
    /\ UNCHANGED <<sample, genVars, verifyVars, breakerVars, poolVars, singletonVars,
                   rwlockVars, objpoolVars>>

RunSingletonDemo == RunTo("creational/singleton_pattern.py")
RunAdapterDemo == RunTo("structural/adapter_pattern.py")
RunObserverDemo == RunTo("behavioral/observer_pattern.py")
RunMvcDemo == RunTo("architectural/mvc_pattern.py")
RunRepositoryDemo == RunTo("enterprise/repository_pattern.py")
RunGatewayDemo == RunTo("microservices/api_gateway_pattern.py")

\* The steps of the sample itself, as opposed to the passing of time.
SampleStep ==
    \/ Call
    \/ FuncReturns
    \/ FuncRaises
    \/ DemoExit
    \/ Submit
    \/ WorkerStarts
    \/ WorkerDone
    \/ Result
    \/ Shutdown
    \/ RunSingletonDemo
    \/ RunAdapterDemo
    \/ RunObserverDemo
    \/ RunMvcDemo
    \/ RunRepositoryDemo
    \/ RunGatewayDemo

NextSamples ==
    \/ Call
    \/ FuncReturns
    \/ FuncRaises
    \/ Tick
    \/ DemoExit
    \/ Submit
    \/ WorkerStarts
    \/ WorkerDone
    \/ Result
    \/ Shutdown
    \/ RunSingletonDemo
    \/ RunAdapterDemo
    \/ RunObserverDemo
    \/ RunMvcDemo
    \/ RunRepositoryDemo
    \/ RunGatewayDemo

SpecSamples == InitSamples /\ [][NextSamples]_vars

\* Number of steps the sample still has to take.
SampleStepsLeft ==
    (IF status = -1 THEN 1 ELSE 0)
    + 2 * (limit - calls) + (IF cpc = "in_func" THEN 1 ELSE 0)
    + 3 * Cardinality({n \in DOMAIN tasks : tasks[n] = "new"})
    + 2 * Cardinality({n \in DOMAIN tasks : tasks[n] = "queued"})
    + Cardinality({n \in DOMAIN tasks : tasks[n] = "running"})
    + (IF sample = PoolDemo THEN NumTasks - Len(printed) ELSE 0)

NumThreads == 2
CallsPerThread == 2

Threads == 1..NumThreads
Variants == {"new", "meta", "decorator", "get_instance"}

\* An object as object.__new__ returns it: _initialized is not yet an
\* attribute and no __init__ body has run on it.
Fresh == [initialized |-> "unset", inits |-> 0]

\* An object built by cls(): its __init__ has run once.
Built == [initialized |-> "unset", inits |-> 1]

InitSingleton ==
    /\ GenIdle /\ VerifyIdle /\ BreakerIdle /\ PoolIdle /\ SampleIdle
    /\ RWLockIdle /\ ObjectPoolIdle
    /\ variant \in Variants
    /\ instance = 0 /\ objects = <<>> /\ lock = 0
    /\ tpc = [t \in Threads |-> "idle"]
    /\ obj = [t \in Threads |-> 0]
    /\ ncalls = [t \in Threads |-> 0]
    /\ returned = {} /\ raised = 0

singletonOthers == <<genVars, verifyVars, breakerVars, poolVars, rwlockVars, objpoolVars,
                     sampleVars>>

\* Thread t moves on to position p.
Goto(t, p) == tpc' = [tpc EXCEPT ![t] = p]

\* The call of thread t ends by returning object o.
Returns(t, o) ==
    /\ returned' = returned \cup {o}
    /\ Goto(t, "idle")

\* A thread calls the singleton.
StartCall(t) ==
    /\ tpc[t] = "idle" /\ ncalls[t] < CallsPerThread
    /\ ncalls' = [ncalls EXCEPT ![t] = @ + 1]
    /\ obj' = [obj EXCEPT ![t] = 0]
    /\ Goto(t, "check1")
    /\ UNCHANGED <<variant, instance, objects, lock, returned, raised, singletonOthers>>

\* The first test, outside the lock (singleton_pattern.py lines 18, 41, 65;
\* double_checked_locking_pattern.py line 10).
Check1(t) ==
    /\ tpc[t] = "check1"
    /\ Goto(t, IF instance = 0 THEN "acquire" ELSE "return")
    /\ UNCHANGED <<variant, instance, objects, lock, obj, ncalls, returned, raised,
                   singletonOthers>>

\* with lock: (lines 19, 42, 66; line 11).
Acquire(t) ==
    /\ tpc[t] = "acquire" /\ lock = 0
    /\ lock' = t
    /\ Goto(t, "check2")
    /\ UNCHANGED <<variant, instance, objects, obj, ncalls, returned, raised,
                   singletonOthers>>

\* The second test, under the lock (lines 20, 43, 67; line 12).
Check2(t) ==
    /\ tpc[t] = "check2"
    /\ Goto(t, IF instance # 0 THEN "release"
               ELSE IF variant = "new" THEN "new" ELSE "construct")
    /\ UNCHANGED <<variant, instance, objects, lock, obj, ncalls, returned, raised,
                   singletonOthers>>

\* DatabaseConnection.__new__, line 21: the new object is stored in
\* cls._instance as it comes from object.__new__.
New(t) ==
    /\ tpc[t] = "new"
    /\ objects' = Append(objects, Fresh)
    /\ instance' = Len(objects) + 1
    /\ Goto(t, "set_flag")
    /\ UNCHANGED <<variant, lock, obj, ncalls, returned, raised, singletonOthers>>

\* DatabaseConnection.__new__, line 22: cls._instance._initialized = False.
SetFlag(t) ==
    /\ tpc[t] = "set_flag"
    /\ objects' = [objects EXCEPT ![instance].initialized = "false"]
    /\ Goto(t, "release")
    /\ UNCHANGED <<variant, instance, lock, obj, ncalls, returned, raised,
                   singletonOthers>>

\* The right-hand sides of lines 44 and 68 and of line 13: cls() builds an
\* object and runs its __init__.
Construct(t) ==
    /\ tpc[t] = "construct"
    /\ objects' = Append(objects, Built)
    /\ obj' = [obj EXCEPT ![t] = Len(objects) + 1]
    /\ Goto(t, "store")
    /\ UNCHANGED <<variant, instance, lock, ncalls, returned, raised, singletonOthers>>

\* The assignments of lines 45 and 68 and of line 13.
Store(t) ==
    /\ tpc[t] = "store"
    /\ instance' = obj[t]
    /\ Goto(t, "release")
    /\ UNCHANGED <<variant, objects, lock, obj, ncalls, returned, raised,
                   singletonOthers>>

\* End of the with block.
Release(t) ==
    /\ tpc[t] = "release"
    /\ lock' = 0
    /\ Goto(t, "return")
    /\ UNCHANGED <<variant, instance, objects, obj, ncalls, returned, raised,
                   singletonOthers>>

\* return cls._instance (lines 23, 46, 69; line 14).  For DatabaseConnection
\* this ends __new__ and type.__call__ goes on to __init__.
ReturnInstance(t) ==
    /\ tpc[t] = "return"
    /\ obj' = [obj EXCEPT ![t] = instance]
    /\ IF variant = "new"
       THEN Goto(t, "init") /\ UNCHANGED returned
       ELSE Returns(t, instance)
    /\ UNCHANGED <<variant, instance, objects, lock, ncalls, raised, singletonOthers>>

\* DatabaseConnection.__init__, line 26: if not self._initialized; reading
\* an attribute that is not set raises AttributeError.
InitCheck(t) ==
    /\ tpc[t] = "init"
    /\ CASE objects[obj[t]].initialized = "unset" ->
               raised' = raised + 1 /\ Goto(t, "idle") /\ UNCHANGED returned
         [] objects[obj[t]].initialized = "false" ->
               Goto(t, "init_body") /\ UNCHANGED <<returned, raised>>
         [] OTHER ->
               Returns(t, obj[t]) /\ UNCHANGED raised
    /\ UNCHANGED <<variant, instance, objects, lock, obj, ncalls, singletonOthers>>

\* DatabaseConnection.__init__, line 27: self.connection = ...
InitBody(t) ==
    /\ tpc[t] = "init_body"
    /\ objects' = [objects EXCEPT ![obj[t]].inits = @ + 1]
    /\ Goto(t, "init_set")
    /\ UNCHANGED <<variant, instance, lock, obj, ncalls, returned, raised,
                   singletonOthers>>

\* DatabaseConnection.__init__, line 28: self._initialized = True.
InitSet(t) ==
    /\ tpc[t] = "init_set"
    /\ objects' = [objects EXCEPT ![obj[t]].initialized = "true"]
    /\ Returns(t, obj[t])
    /\ UNCHANGED <<variant, instance, lock, obj, ncalls, raised, singletonOthers>>

NextSingleton ==
    \/ \E t \in Threads : StartCall(t)
    \/ \E t \in Threads : Check1(t)
    \/ \E t \in Threads : Acquire(t)
    \/ \E t \in Threads : Check2(t)
    \/ \E t \in Threads : New(t)
    \/ \E t \in Threads : SetFlag(t)
    \/ \E t \in Threads : Construct(t)
    \/ \E t \in Threads : Store(t)
    \/ \E t \in Threads : Release(t)
    \/ \E t \in Threads : ReturnInstance(t)
    \/ \E t \in Threads : InitCheck(t)
    \/ \E t \in Threads : InitBody(t)
    \/ \E t \in Threads : InitSet(t)

SpecSingleton == InitSingleton /\ [][NextSingleton]_vars

\* At most one object is ever created, and a call that returns returns it.
OneObject ==
    /\ Len(objects) <= 1
    /\ returned \subseteq {1}
    /\ returned # {} => instance = 1

\* C19: each of the four singletons creates exactly one instance, and every
\* call, concurrent or later, returns that instance.
C19_Uniqueness ==
    /\ OneObject
    /\ raised = 0

\* C20: for DatabaseConnection the body of __init__ runs exactly once in
\* total, and no call runs __init__ on the instance before __new__ has set
\* its _initialized attribute.
C20_OneTimeInit ==
    variant = "new" =>
        /\ \A o \in DOMAIN objects : objects[o].inits <= 1
        /\ \A t \in Threads : tpc[t] = "init" => objects[obj[t]].initialized # "unset"
        /\ \A t \in Threads :
              (tpc[t] = "idle" /\ ncalls[t] > 0 /\ obj[t] # 0) => objects[obj[t]].inits = 1

\* ==================================== concurrency/read_write_lock_pattern.py
\* Threads use one ReadWriteLock; each pairs acquire_read with release_read
\* or acquire_write with release_write, again and again.  A thread switch
\* can happen between any two statements.
NumLockUsers == 3

LockUsers == 1..NumLockUsers

\* acquire_read, line 13.
FirstReader(n) == n = 1

\* Variant: the write lock is given back while one reader is left.
LastReaderButOne(n) == n = 1

\* release_read, line 19.
LastReader(n) == n = 0

InitRWLock ==
    /\ GenIdle /\ VerifyIdle /\ BreakerIdle /\ PoolIdle /\ SingletonIdle
    /\ ObjectPoolIdle /\ SampleIdle
    /\ readers = 0 /\ mutex = 0 /\ write_lock = FALSE
    /\ rwpc = [t \in LockUsers |-> "idle"]

rwlockOthers == <<genVars, verifyVars, breakerVars, poolVars, singletonVars,
                  objpoolVars, sampleVars>>

\* Thread t moves on to position p.
At(t, p) == rwpc' = [rwpc EXCEPT ![t] = p]

\* A thread calls acquire_read (line 10).
StartRead(t) ==
    /\ rwpc[t] = "idle"
    /\ At(t, "ar_lock")
    /\ UNCHANGED <<readers, mutex, write_lock, rwlockOthers>>

\* with self._lock: (lines 11 and 17).
LockMutex(t) ==
    /\ rwpc[t] \in {"ar_lock", "rr_lock"} /\ mutex = 0
    /\ mutex' = t
    /\ At(t, IF rwpc[t] = "ar_lock" THEN "ar_inc" ELSE "rr_dec")
    /\ UNCHANGED <<readers, write_lock, rwlockOthers>>

\* acquire_read, line 12.
Increment(t) ==
    /\ rwpc[t] = "ar_inc"
    /\ readers' = readers + 1
    /\ At(t, "ar_test")
    /\ UNCHANGED <<mutex, write_lock, rwlockOthers>>

\* acquire_read, line 13.
FirstReaderTest(t) ==
    /\ rwpc[t] = "ar_test"
    /\ At(t, IF FirstReader(readers) THEN "ar_wlock" ELSE "ar_unlock")
    /\ UNCHANGED <<readers, mutex, write_lock, rwlockOthers>>

\* acquire_read, line 14: blocks until the write lock is free.
ReaderTakesWriteLock(t) ==
    /\ rwpc[t] = "ar_wlock" /\ ~write_lock
    /\ write_lock' = TRUE
    /\ At(t, "ar_unlock")
    /\ UNCHANGED <<readers, mutex, rwlockOthers>>

\* End of the with blocks of acquire_read and release_read.
UnlockMutex(t) ==
    /\ rwpc[t] \in {"ar_unlock", "rr_unlock"}
    /\ mutex' = 0
    /\ At(t, IF rwpc[t] = "ar_unlock" THEN "reading" ELSE "idle")
    /\ UNCHANGED <<readers, write_lock, rwlockOthers>>

\* A thread that reads calls release_read (line 16).
StartReleaseRead(t) ==
    /\ rwpc[t] = "reading"
    /\ At(t, "rr_lock")
    /\ UNCHANGED <<readers, mutex, write_lock, rwlockOthers>>

\* release_read, line 18.
Decrement(t) ==
    /\ rwpc[t] = "rr_dec"
    /\ readers' = readers - 1
    /\ At(t, "rr_test")
    /\ UNCHANGED <<mutex, write_lock, rwlockOthers>>

\* release_read, line 19.
LastReaderTest(t) ==
    /\ rwpc[t] = "rr_test"
    /\ At(t, IF LastReader(readers) THEN "rr_wunlock" ELSE "rr_unlock")
    /\ UNCHANGED <<readers, mutex, write_lock, rwlockOthers>>

\* release_read, line 20; releasing an unlocked Lock raises RuntimeError,
\* which leaves the with block.
ReaderReleasesWriteLock(t) ==
    /\ rwpc[t] = "rr_wunlock"
    /\ IF write_lock
       THEN write_lock' = FALSE /\ At(t, "rr_unlock") /\ UNCHANGED mutex
       ELSE mutex' = 0 /\ At(t, "error") /\ UNCHANGED write_lock
    /\ UNCHANGED <<readers, rwlockOthers>>

\* A thread calls acquire_write (line 22).
StartWrite(t) ==
    /\ rwpc[t] = "idle"
    /\ At(t, "aw_wlock")
    /\ UNCHANGED <<readers, mutex, write_lock, rwlockOthers>>

\* acquire_write, line 23: blocks until the write lock is free.
AcquireWrite(t) ==
    /\ rwpc[t] = "aw_wlock" /\ ~write_lock
    /\ write_lock' = TRUE
    /\ At(t, "writing")
    /\ UNCHANGED <<readers, mutex, rwlockOthers>>

\* release_write, lines 25-26.
ReleaseWrite(t) ==
    /\ rwpc[t] = "writing"
    /\ IF write_lock
       THEN write_lock' = FALSE /\ At(t, "idle")
       ELSE At(t, "error") /\ UNCHANGED write_lock
    /\ UNCHANGED <<readers, mutex, rwlockOthers>>

NextRWLock ==
    \/ \E t \in LockUsers : StartRead(t)
    \/ \E t \in LockUsers : LockMutex(t)
    \/ \E t \in LockUsers : Increment(t)
    \/ \E t \in LockUsers : FirstReaderTest(t)
    \/ \E t \in LockUsers : ReaderTakesWriteLock(t)
    \/ \E t \in LockUsers : UnlockMutex(t)
    \/ \E t \in LockUsers : StartReleaseRead(t)
    \/ \E t \in LockUsers : Decrement(t)
    \/ \E t \in LockUsers : LastReaderTest(t)
    \/ \E t \in LockUsers : ReaderReleasesWriteLock(t)
    \/ \E t \in LockUsers : StartWrite(t)
    \/ \E t \in LockUsers : AcquireWrite(t)
    \/ \E t \in LockUsers : ReleaseWrite(t)

SpecRWLock == InitRWLock /\ [][NextRWLock]_vars

\* The threads that hold the lock for writing: acquire_write has returned
\* and release_write has not run.
WriteHolders == {t \in DOMAIN rwpc : rwpc[t] = "writing"}

\* The threads that hold the lock for reading: acquire_read has returned and
\* release_read has not yet taken them off the count.
ReadHolders == {t \in DOMAIN rwpc : rwpc[t] \in {"reading", "rr_lock", "rr_dec"}}

\* C21: at most one thread holds the lock for writing, and while one does no
\* thread holds it for reading; readers do not exclude one another: a reader
\* waits for the write lock only while no reader holds the lock, so that
\* every thread can hold it for reading at once; and no release fails.
C21_ReadersWriter ==
    /\ Cardinality(WriteHolders) <= 1
    /\ WriteHolders # {} => ReadHolders = {}
    /\ (WriteHolders \cup ReadHolders) # {} => write_lock
    /\ \A t \in DOMAIN rwpc : rwpc[t] = "ar_wlock" => ReadHolders = {}
    /\ \A t \in DOMAIN rwpc : rwpc[t] # "error"
    /\ readers >= Cardinality(ReadHolders)

\* All threads hold the lock for reading at once while none writes.
C21_Witness ==
    /\ rwpc # <<>>
    /\ \A t \in DOMAIN rwpc : rwpc[t] = "reading"
    /\ readers = Cardinality(DOMAIN rwpc)

\* ======================================= creational/object_pool_pattern.py
\* Threads call acquire() and release(obj) on one ObjectPool, release with
\* any object the factory has made or with an object that is not the pool's
\* (0, also standing for None).  The factory returns a new object each time.
NumPoolUsers == 2
MaxSize == 2

PoolUsers == 1..NumPoolUsers

\* obj in list
In(list, o) == \E k \in DOMAIN list : list[k] = o

\* list.remove(obj): the list without the first occurrence of obj.
Remove(list, o) ==
    LET k == CHOOSE j \in DOMAIN list : list[j] = o /\ \A h \in 1..(j - 1) : list[h] # o
    IN SubSeq(list, 1, k - 1) \o SubSeq(list, k + 1, Len(list))

\* Variant: the pool creates an object while max_size are in use.
MayCreateAtLimit(n, m) == n <= m

\* acquire, line 29.
MayCreate(n, m) == n < m

InitObjectPool ==
    /\ GenIdle /\ VerifyIdle /\ BreakerIdle /\ PoolIdle /\ SingletonIdle
    /\ RWLockIdle /\ SampleIdle
    /\ max_size \in 0..MaxSize
    /\ available = <<>> /\ in_use = <<>> /\ pool_lock = 0 /\ made = 0
    /\ caller = [t \in PoolUsers |-> [pc |-> "idle", obj |-> 0, res |-> 0]]

objpoolOthers == <<genVars, verifyVars, breakerVars, poolVars, singletonVars,
                   rwlockVars, sampleVars>>

\* Thread t moves on to position p with o in its local obj.
Move(t, p, o) == caller' = [caller EXCEPT ![t].pc = p, ![t].obj = o]

\* A thread calls acquire() (line 23).
StartAcquire(t) ==
    /\ caller[t].pc = "idle"
    /\ caller' = [caller EXCEPT ![t] = [pc |-> "a_lock", obj |-> 0, res |-> 0]]
    /\ UNCHANGED <<max_size, available, in_use, pool_lock, made, objpoolOthers>>

\* A thread calls release(obj) (line 35).
StartRelease(t) ==
    /\ caller[t].pc = "idle"
    /\ \E o \in 0..made :
          caller' = [caller EXCEPT ![t] = [pc |-> "r_lock", obj |-> o, res |-> 0]]
    /\ UNCHANGED <<max_size, available, in_use, pool_lock, made, objpoolOthers>>

\* with self._lock: (lines 24 and 36).
LockPool(t) ==
    /\ caller[t].pc \in {"a_lock", "r_lock"} /\ pool_lock = 0
    /\ pool_lock' = t
    /\ Move(t, IF caller[t].pc = "a_lock" THEN "a_test" ELSE "r_test", caller[t].obj)
    /\ UNCHANGED <<max_size, available, in_use, made, objpoolOthers>>

\* acquire, lines 25, 29 and 33: which branch is taken.
AcquireTest(t) ==
    /\ caller[t].pc = "a_test"
    /\ Move(t, IF available # <<>> THEN "a_pop"
               ELSE IF MayCreate(Len(in_use), max_size) THEN "a_make"
               ELSE "a_none", 0)
    /\ UNCHANGED <<max_size, available, in_use, pool_lock, made, objpoolOthers>>

\* acquire, line 26: obj = self._available.pop().
PopAvailable(t) ==
    /\ caller[t].pc = "a_pop"
    /\ Move(t, "a_append", available[Len(available)])
    /\ available' = SubSeq(available, 1, Len(available) - 1)
    /\ UNCHANGED <<max_size, in_use, pool_lock, made, objpoolOthers>>

\* acquire, line 30: obj = self._factory().
CallFactory(t) ==
    /\ caller[t].pc = "a_make"
    /\ made' = made + 1
    /\ Move(t, "a_append", made + 1)
    /\ UNCHANGED <<max_size, available, in_use, pool_lock, objpoolOthers>>

\* acquire, lines 27 and 31: self._in_use.append(obj).
AppendInUse(t) ==
    /\ caller[t].pc = "a_append"
    /\ in_use' = Append(in_use, caller[t].obj)
    /\ Move(t, "a_ret", caller[t].obj)
    /\ UNCHANGED <<max_size, available, pool_lock, made, objpoolOthers>>

\* acquire, lines 28, 32 and 33: the lock is given back and obj, or None,
\* is returned.
AcquireReturns(t) ==
    /\ caller[t].pc \in {"a_ret", "a_none"}
    /\ pool_lock' = 0
    /\ caller' = [caller EXCEPT ![t].pc = "idle",
                                ![t].res = IF caller[t].pc = "a_none" THEN 0
                                           ELSE caller[t].obj]
    /\ UNCHANGED <<max_size, available, in_use, made, objpoolOthers>>

\* release, line 37.
ReleaseTest(t) ==
    /\ caller[t].pc = "r_test"
    /\ Move(t, IF In(in_use, caller[t].obj) THEN "r_remove" ELSE "r_ret", caller[t].obj)
    /\ UNCHANGED <<max_size, available, in_use, pool_lock, made, objpoolOthers>>

\* release, line 38.
RemoveInUse(t) ==
    /\ caller[t].pc = "r_remove"
    /\ in_use' = Remove(in_use, caller[t].obj)
    /\ Move(t, "r_append", caller[t].obj)
    /\ UNCHANGED <<max_size, available, pool_lock, made, objpoolOthers>>

\* release, line 39.
AppendAvailable(t) ==
    /\ caller[t].pc = "r_append"
    /\ available' = Append(available, caller[t].obj)
    /\ Move(t, "r_ret", caller[t].obj)
    /\ UNCHANGED <<max_size, in_use, pool_lock, made, objpoolOthers>>

\* release: end of the with block.
ReleaseReturns(t) ==
    /\ caller[t].pc = "r_ret"
    /\ pool_lock' = 0
    /\ Move(t, "idle", caller[t].obj)
    /\ UNCHANGED <<max_size, available, in_use, made, objpoolOthers>>

NextObjectPool ==
    \/ \E t \in PoolUsers : StartAcquire(t)
    \/ \E t \in PoolUsers : StartRelease(t)
    \/ \E t \in PoolUsers : LockPool(t)
    \/ \E t \in PoolUsers : AcquireTest(t)
    \/ \E t \in PoolUsers : PopAvailable(t)
    \/ \E t \in PoolUsers : CallFactory(t)
    \/ \E t \in PoolUsers : AppendInUse(t)
    \/ \E t \in PoolUsers : AcquireReturns(t)
    \/ \E t \in PoolUsers : ReleaseTest(t)
    \/ \E t \in PoolUsers : RemoveInUse(t)
    \/ \E t \in PoolUsers : AppendAvailable(t)
    \/ \E t \in PoolUsers : ReleaseReturns(t)

SpecObjectPool == InitObjectPool /\ [][NextObjectPool]_vars

\* The elements of a list.
Elems(list) == {list[k] : k \in DOMAIN list}

\* C22: the factory is called at most max_size times; no object is in the
\* available list and the in-use list at once (nor twice in either); the
\* factory is called only while the available list is empty; and a call of
\* acquire() returns None exactly when, at the time it holds the lock, the
\* available list is empty and max_size objects are in use.
C22_PoolBound ==
    /\ [](/\ made <= max_size
          /\ Elems(available) \cap Elems(in_use) = {}
          /\ Cardinality(Elems(available)) = Len(available)
          /\ Cardinality(Elems(in_use)) = Len(in_use)
          /\ Len(in_use) <= max_size
          /\ \A t \in DOMAIN caller :
                /\ caller[t].pc = "a_make" => available = <<>>
                /\ caller[t].pc \in {"a_pop", "a_make", "a_none"} =>
                      (caller[t].pc = "a_none" <=>
                          (available = <<>> /\ Len(in_use) = max_size)))
    /\ [][\A t \in DOMAIN caller :
             (caller[t].pc \in {"a_ret", "a_none"} /\ caller'[t].pc = "idle") =>
                /\ caller'[t].res = 0 <=> caller[t].pc = "a_none"
                /\ caller'[t].res # 0 => In(in_use, caller'[t].res)
             ]_vars
    /\ [][made' # made =>
             (made' = made + 1 /\ available = <<>> /\ Len(in_use) < max_size)]_vars
    /\ [][\A t \in DOMAIN caller :
             (caller[t].pc = "a_test" /\ caller'[t].pc # "a_test") =>
                (caller'[t].pc = "a_none" <=>
                    (available = <<>> /\ Len(in_use) = max_size))]_vars

\* A released object has been handed out again and the next call of
\* acquire() has returned None with max_size objects in use.
C22_Witness ==
    /\ max_size = 2 /\ made = 2 /\ available = <<>> /\ in_use = <<2, 1>>
    /\ \E t \in DOMAIN caller : caller[t].pc = "a_none"
====
